---- MODULE Spec2Model ----
(***************************************************************************)
(* State-machine model of checkin.py (AnyRouter multi-account check-in).   *)
(*                                                                         *)
(* One run of run_main()/main() is modelled: the configuration load, the   *)
(* read of balance_hash.txt, the sequential account loop (cookie           *)
(* acquisition, HTTP client, profile fetch, check-in request), the         *)
(* notification decision, the write of balance_hash.txt, the notification  *)
(* call and the exit code.                                                 *)
(*                                                                         *)
(* Representation of Python values:                                        *)
(*   - an optional value is a record with an isNone flag;                  *)
(*   - a str is a sequence (of character codes or of tokens);              *)
(*   - a dict is a sequence of entries in insertion order, keys unique;    *)
(*   - a quota is a number of hundredths (round(x, 2) keeps two decimals); *)
(*   - sha256(...).hexdigest()[:16] is taken to be collision free on the   *)
(*     inputs of one run: a digest is represented by the JSON text it was  *)
(*     computed from.                                                      *)
(***************************************************************************)
EXTENDS Integers, Sequences, FiniteSets, TLC

VARIABLES
    env,                       \* os.getenv('ANYROUTER_ACCOUNTS')
    hashFile,                  \* balance_hash.txt on disk
    pc,                        \* position of main()
    accounts,                  \* main: accounts (result of load_accounts)
    last_balance_hash,         \* main: last_balance_hash
    i,                         \* main: loop index (0-based, as enumerate)
    phase,                     \* position of check_in_account for account i
    user_info,                 \* check_in_account: user_info
    success_count,             \* main: success_count
    account_results,           \* main: account_results
    current_balances,          \* main: current_balances
    need_notify,               \* main: need_notify
    balance_changed,           \* main: balance_changed
    balances_for_notification, \* main: balances_for_notification
    current_balance_hash,      \* main: current_balance_hash
    exit_code,                 \* process exit status, -1 while running
    acctState,                 \* per account: orchestrator state of section 4.5
    clientOpen,                \* accounts whose httpx.Client is open
    log,                       \* observation of calls to the outside world
    call,                      \* a function applied on its own: argument, value
    first                      \* what the previous run of main() left, when there was one

vars == << env, hashFile, pc, accounts, last_balance_hash, i, phase, user_info,
           success_count, account_results, current_balances, need_notify,
           balance_changed, balances_for_notification, current_balance_hash,
           exit_code, acctState, clientOpen, log, call, first >>

-----------------------------------------------------------------------------
(* Bounds and program constants *)

\* longest account list explored
MaxAccounts == 2

\* str(e)[:50] (lines 207, 296, 359)
TruncLen == 50

\* raw quota units per displayed unit (lines 197, 198)
QuotaScale == 500000

-----------------------------------------------------------------------------
(* Generic helpers on sequences *)

Min(a, b) == IF a <= b THEN a ELSE b

\* s[:n]
Take(s, n) == SubSeq(s, 1, Min(Len(s), n))

SeqsUpTo(S, n) == UNION { [1..m -> S] : m \in 0..n }

-----------------------------------------------------------------------------
(* Python dict: entries [key, val] in insertion order, keys unique *)

DictHas(d, k) == \E j \in 1..Len(d) : d[j].key = k

\* d[k]
DictGet(d, k) == d[CHOOSE j \in 1..Len(d) : d[j].key = k].val

\* d[k] = v: an existing key keeps its position, a new key goes last
DictSet(d, k, v) ==
    IF DictHas(d, k)
    THEN [j \in 1..Len(d) |-> IF d[j].key = k THEN [key |-> k, val |-> v] ELSE d[j]]
    ELSE Append(d, [key |-> k, val |-> v])

-----------------------------------------------------------------------------
(* Configuration values: the text of ANYROUTER_ACCOUNTS, already classified *)
(* by what json.loads makes of it.                                          *)

CookieStr ==
    [kind |-> "str",
     segs |-> << [key |-> "session", value |-> "abc", eq |-> TRUE],
                 [key |-> "junk", value |-> "", eq |-> FALSE] >>]

CookieDict ==
    [kind |-> "dict",
     segs |-> << [key |-> "session", value |-> "xyz", eq |-> TRUE] >>]

CookieStrNoEq ==
    [kind |-> "str",
     segs |-> << [key |-> "nocookie", value |-> "", eq |-> FALSE] >>]

AllKeys == {"cookies", "api_user", "name"}

ElemNamed ==
    [isDict |-> TRUE, keys |-> AllKeys, name |-> "Main",
     api_user |-> "u1", cookies |-> CookieStr]

ElemAnon ==
    [isDict |-> TRUE, keys |-> {"cookies", "api_user"}, name |-> "",
     api_user |-> "u2", cookies |-> CookieDict]

ElemNoUser ==
    [isDict |-> TRUE, keys |-> {"cookies", "api_user"}, name |-> "",
     api_user |-> "", cookies |-> CookieDict]

ElemNoCookie ==
    [isDict |-> TRUE, keys |-> AllKeys, name |-> "Spare",
     api_user |-> "u3", cookies |-> CookieStrNoEq]

ElemNotDict ==
    [isDict |-> FALSE, keys |-> {}, name |-> "",
     api_user |-> "", cookies |-> CookieStrNoEq]

ElemMissingField ==
    [isDict |-> TRUE, keys |-> {"cookies"}, name |-> "",
     api_user |-> "", cookies |-> CookieStr]

ElemEmptyName ==
    [isDict |-> TRUE, keys |-> AllKeys, name |-> "",
     api_user |-> "u1", cookies |-> CookieStr]

Elements ==
    { ElemNamed, ElemAnon, ElemNoUser, ElemNoCookie,
      ElemNotDict, ElemMissingField, ElemEmptyName }

EnvValues ==
    { [kind |-> k, items |-> << >>] : k \in {"unset", "empty", "badjson", "nonarray"} }
    \cup { [kind |-> "array", items |-> s] : s \in SeqsUpTo(Elements, MaxAccounts) }

NoAccounts == [isNone |-> TRUE, list |-> << >>]

\* lines 58-68: the element checks of load_accounts
ElementOk(account) ==
    /\ account.isDict
    /\ "cookies" \in account.keys
    /\ "api_user" \in account.keys
    /\ ~ ("name" \in account.keys /\ account.name = "")

\* faulty variant of load_accounts: the elements that fail the checks are
\* skipped and the others returned
LoadAccountsSkipInvalid(e) ==
    IF e.kind # "array" THEN NoAccounts
    ELSE [isNone |-> FALSE, list |-> SelectSeq(e.items, ElementOk)]

\* load_accounts(): None, or the whole list
load_accounts(e) ==
    IF e.kind \in {"unset", "empty"} THEN NoAccounts
    ELSE IF e.kind = "badjson" THEN NoAccounts
    ELSE IF e.kind # "array" THEN NoAccounts
    ELSE IF \E k \in 1..Len(e.items) : ~ ElementOk(e.items[k]) THEN NoAccounts
    ELSE [isNone |-> FALSE, list |-> e.items]

\* faulty variant of NotAccounts: `accounts is None`
NotAccountsNoneOnly(a) == a.isNone

\* `not accounts` (line 309)
NotAccounts(a) == a.isNone \/ Len(a.list) = 0

\* get_account_display_name(account_info, account_index)
get_account_display_name(account_info, account_index) ==
    IF "name" \in account_info.keys
    THEN [custom |-> TRUE, text |-> account_info.name, number |-> 0]
    ELSE [custom |-> FALSE, text |-> "Account", number |-> account_index + 1]

RECURSIVE ParseSegs(_, _)
ParseSegs(segs, acc) ==
    IF segs = << >> THEN acc
    ELSE ParseSegs(Tail(segs),
                   IF Head(segs).eq
                   THEN DictSet(acc, Head(segs).key, Head(segs).value)
                   ELSE acc)

\* faulty variant of parse_cookies: a segment without '=' is kept as a
\* cookie with an empty value
ParseCookiesKeepAll(cookies_data) ==
    [j \in 1..Len(cookies_data.segs) |->
        [key |-> cookies_data.segs[j].key, val |-> cookies_data.segs[j].value]]

\* parse_cookies(cookies_data)
parse_cookies(cookies_data) ==
    IF cookies_data.kind = "dict"
    THEN [j \in 1..Len(cookies_data.segs) |->
            [key |-> cookies_data.segs[j].key, val |-> cookies_data.segs[j].value]]
    ELSE IF cookies_data.kind = "str" THEN ParseSegs(cookies_data.segs, << >>)
    ELSE << >>

-----------------------------------------------------------------------------
(* Balance hash tracker *)

\* A str read from or written to balance_hash.txt: a sequence of tokens,
\* each either whitespace or a 16-character digest.
Ws == [ws |-> TRUE, json |-> << >>]

Digest(json) == [ws |-> FALSE, json |-> json]

NoneStr == [isNone |-> TRUE, text |-> << >>]

Str(t) == [isNone |-> FALSE, text |-> t]

\* truth value of an optional str
Truthy(s) == ~ s.isNone /\ s.text # << >>

RECURSIVE LStrip(_)
LStrip(t) == IF t # << >> /\ Head(t).ws THEN LStrip(Tail(t)) ELSE t

RECURSIVE RStrip(_)
RStrip(t) ==
    IF t # << >> /\ t[Len(t)].ws THEN RStrip(SubSeq(t, 1, Len(t) - 1)) ELSE t

\* str.strip()
Strip(t) == RStrip(LStrip(t))

RECURSIVE InsertByKey(_, _)
InsertByKey(e, sorted) ==
    IF sorted = << >> THEN << e >>
    ELSE IF e.key < Head(sorted).key THEN << e >> \o sorted
    ELSE << Head(sorted) >> \o InsertByKey(e, Tail(sorted))

RECURSIVE SortByKey(_)
SortByKey(d) ==
    IF d = << >> THEN << >> ELSE InsertByKey(Head(d), SortByKey(Tail(d)))

\* faulty variant of generate_balance_hash: json.dumps without sort_keys
GenerateBalanceHashUnsorted(balances) ==
    LET simple_balances ==
            [j \in 1..Len(balances) |->
                [key |-> balances[j].key, val |-> balances[j].val.quota]]
    IN  << Digest(simple_balances) >>

\* generate_balance_hash(balances): quota only, keys sorted
\* (account keys are numbered 1..9 here, where numeric and text order agree)
generate_balance_hash(balances) ==
    LET simple_balances ==
            [j \in 1..Len(balances) |->
                [key |-> balances[j].key, val |-> balances[j].val.quota]]
        balance_json == SortByKey(simple_balances)
    IN  << Digest(balance_json) >>

\* line 99, `... if balances else {}`: an argument that is None or empty
\* counts as the empty dict
BalancesOrEmpty(b) == IF b.isNone \/ b.entries = << >> THEN << >> ELSE b.entries

\* load_balance_hash(): the stripped text, None when absent or unreadable
load_balance_hash(file) ==
    IF file.exists /\ file.readable THEN Str(Strip(file.text)) ELSE NoneStr

\* save_balance_hash(balance_hash): the file after the call; when open()
\* fails the file is left as it was
save_balance_hash(file, balance_hash, outcome) ==
    IF outcome = "written"
    THEN [exists |-> TRUE, readable |-> TRUE, text |-> balance_hash]
    ELSE file

SaveOutcomes == {"written", "open_failed"}

-----------------------------------------------------------------------------
(* Cookie acquirer and session client *)

\* exception messages: one shorter and one longer than the truncation length
ShortMsg == << 1, 2, 3 >>

LongMsg == [k \in 1..(TruncLen + 2) |-> k]

RequiredCookies == {"acw_tc", "cdn_sec_tc", "acw_sc__v2"}

\* page.context.cookies() after the login page has loaded
JarFull ==
    { [name |-> n, hasValue |-> TRUE] : n \in RequiredCookies \cup {"lang"} }

JarMissing ==
    { [name |-> n, hasValue |-> TRUE] : n \in {"acw_tc", "lang"} }

JarNullValue ==
    { [name |-> n, hasValue |-> (n # "acw_sc__v2")] : n \in RequiredCookies }

AcquireOutcomes ==
    { [kind |-> "launch_raises", msg |-> LongMsg, jar |-> {}] }
    \cup { [kind |-> "page_raises", msg |-> ShortMsg, jar |-> {}] }
    \cup { [kind |-> "cookies", msg |-> << >>, jar |-> j] :
             j \in {JarFull, JarMissing, JarNullValue} }

\* lines 157-180 of get_waf_cookies_with_playwright: the cookie names kept,
\* None when a required one is missing
waf_cookies_of(jar) ==
    LET waf_cookies ==
            { c.name : c \in { c \in jar : c.name \in RequiredCookies /\ c.hasValue } }
        missing_cookies == RequiredCookies \ waf_cookies
    IN  IF missing_cookies # {}
        THEN [isNone |-> TRUE, names |-> {}]
        ELSE [isNone |-> FALSE, names |-> waf_cookies]

\* what get_waf_cookies_with_playwright gives its caller
get_waf_cookies_with_playwright(outcome) ==
    CASE outcome.kind = "launch_raises" ->
            [raised |-> TRUE, msg |-> outcome.msg, cookies |-> [isNone |-> TRUE, names |-> {}]]
      [] outcome.kind = "page_raises" ->
            [raised |-> FALSE, msg |-> outcome.msg, cookies |-> [isNone |-> TRUE, names |-> {}]]
      [] OTHER ->
            [raised |-> FALSE, msg |-> << >>, cookies |-> waf_cookies_of(outcome.jar)]

\* httpx.Client(http2=True, timeout=30.0)
ClientOutcomes ==
    { [raised |-> FALSE, msg |-> << >>] }
    \cup { [raised |-> TRUE, msg |-> ShortMsg] }

\* round(raw / 500000, 2), in hundredths (ties to even; the inputs used
\* here are no ties, where binary floating point could differ)
Round2(raw) ==
    LET n == raw * 100
        q == n \div QuotaScale
        r == n % QuotaScale
    IN  IF 2 * r > QuotaScale \/ (2 * r = QuotaScale /\ q % 2 = 1) THEN q + 1 ELSE q

NoError == [http |-> FALSE, status |-> 0, msg |-> << >>]

NoneInfo ==
    [isNone |-> TRUE, success |-> FALSE, quota |-> 0, used_quota |-> 0, error |-> NoError]

\* what client.get('/api/user/self') does
ProfileResponses ==
    { [raised |-> FALSE, msg |-> << >>, status |-> 200, success |-> TRUE,
       quota |-> 4000000, used_quota |-> 1250000],
      [raised |-> FALSE, msg |-> << >>, status |-> 200, success |-> TRUE,
       quota |-> 5002000, used_quota |-> 1250000],
      [raised |-> FALSE, msg |-> << >>, status |-> 200, success |-> FALSE,
       quota |-> 0, used_quota |-> 0],
      [raised |-> FALSE, msg |-> << >>, status |-> 500, success |-> FALSE,
       quota |-> 0, used_quota |-> 0] }
    \cup { [raised |-> TRUE, msg |-> LongMsg, status |-> 0, success |-> FALSE,
            quota |-> 0, used_quota |-> 0] }

\* the answers a run of main() is given: one answer for each path of
\* get_user_info (its value, its HTTP failure, its exception)
RunProfileResponses ==
    { r \in ProfileResponses : r.raised \/ r.success \/ r.status # 200 }

\* get_user_info(client, headers)
get_user_info(response) ==
    IF response.raised
    THEN [isNone |-> FALSE, success |-> FALSE, quota |-> 0, used_quota |-> 0,
          error |-> [http |-> FALSE, status |-> 0, msg |-> Take(response.msg, TruncLen)]]
    ELSE IF response.status = 200 /\ response.success
    THEN [isNone |-> FALSE, success |-> TRUE, quota |-> Round2(response.quota),
          used_quota |-> Round2(response.used_quota), error |-> NoError]
    ELSE [isNone |-> FALSE, success |-> FALSE, quota |-> 0, used_quota |-> 0,
          error |-> [http |-> TRUE, status |-> response.status, msg |-> << >>]]

Absent == [has |-> FALSE, v |-> 0]

Field(v) == [has |-> TRUE, v |-> v]

JsonBody(ret, code, success) ==
    [kind |-> "json_object", ret |-> ret, code |-> code, success |-> success,
     has_success_text |-> FALSE]

TextBody(has_success_text) ==
    [kind |-> "text", ret |-> Absent, code |-> Absent, success |-> FALSE,
     has_success_text |-> has_success_text]

\* what client.post('/api/user/sign_in') does
CheckinResponses ==
    { [raised |-> FALSE, msg |-> << >>, status |-> 200, body |-> b] :
        b \in { JsonBody(Field(1), Absent, FALSE),
                JsonBody(Absent, Field(0), FALSE),
                JsonBody(Absent, Absent, TRUE),
                JsonBody(Field(0), Field(1), FALSE),
                JsonBody(Absent, Absent, FALSE),
                TextBody(TRUE),
                TextBody(FALSE),
                [TextBody(FALSE) EXCEPT !.kind = "json_array"] } }
    \cup { [raised |-> FALSE, msg |-> << >>, status |-> 403,
            body |-> JsonBody(Field(1), Absent, TRUE)],
           [raised |-> TRUE, msg |-> ShortMsg, status |-> 0, body |-> TextBody(FALSE)] }

\* faulty variant of checkin_result: the status code is not looked at
CheckinResultAnyStatus(response, info) ==
    IF response.raised \/ response.body.kind = "json_array"
    THEN [raised |-> TRUE, success |-> FALSE, user_info |-> NoneInfo,
          msg |-> IF response.raised THEN response.msg ELSE ShortMsg]
    ELSE IF response.body.kind = "json_object"
    THEN [raised |-> FALSE,
          success |-> \/ (response.body.ret.has /\ response.body.ret.v = 1)
                      \/ (response.body.code.has /\ response.body.code.v = 0)
                      \/ response.body.success,
          user_info |-> info, msg |-> << >>]
    ELSE [raised |-> FALSE, success |-> response.body.has_success_text,
          user_info |-> info, msg |-> << >>]

\* lines 269-297: the value check_in_account returns after the POST;
\* .get on a JSON value that is no object raises inside the try
checkin_result(response, info) ==
    IF response.raised \/ (response.status = 200 /\ response.body.kind = "json_array")
    THEN [raised |-> TRUE, success |-> FALSE, user_info |-> NoneInfo,
          msg |-> IF response.raised THEN response.msg ELSE ShortMsg]
    ELSE IF response.status = 200
    THEN IF response.body.kind = "json_object"
         THEN IF \/ (response.body.ret.has /\ response.body.ret.v = 1)
                 \/ (response.body.code.has /\ response.body.code.v = 0)
                 \/ response.body.success
              THEN [raised |-> FALSE, success |-> TRUE, user_info |-> info, msg |-> << >>]
              ELSE [raised |-> FALSE, success |-> FALSE, user_info |-> info, msg |-> << >>]
         ELSE IF response.body.has_success_text
              THEN [raised |-> FALSE, success |-> TRUE, user_info |-> info, msg |-> << >>]
              ELSE [raised |-> FALSE, success |-> FALSE, user_info |-> info, msg |-> << >>]
    ELSE [raised |-> FALSE, success |-> FALSE, user_info |-> info, msg |-> << >>]

\* faulty variant of ClientAfter: the client is closed on the normal paths
\* only, as if close() stood at the end of the try block
ClientLeakOnRaise(open, k, raised) == IF raised THEN open ELSE open \ {k}

\* try ... finally: client.close() (lines 238, 298-299): the open clients
\* once check_in_account has left the try statement
ClientAfter(open, k, raised) == open \ {k}

-----------------------------------------------------------------------------
(* Orchestrator: the values main() computes *)

EmptyDetail == [kind |-> "empty", quota |-> 0, used |-> 0, status |-> 0, msg |-> << >>]

\* lines 335-344: detail_message
DetailMessage(info) ==
    IF ~ info.isNone /\ info.success
    THEN [kind |-> "balance", quota |-> info.quota, used |-> info.used_quota,
          status |-> 0, msg |-> << >>]
    ELSE IF ~ info.isNone
    THEN [kind |-> IF info.error.http THEN "error_http" ELSE "error_exception",
          quota |-> 0, used |-> 0, status |-> info.error.status, msg |-> info.error.msg]
    ELSE EmptyDetail

\* lines 338-341: current_balances after the result of one account
BalancesAfter(balances, account_key, info) ==
    IF ~ info.isNone /\ info.success
    THEN DictSet(balances, account_key, [quota |-> info.quota, used |-> info.used_quota])
    ELSE balances

\* faulty variant of NeedNotifyAfterResult: a failed account asks for no
\* notification
NeedNotifyKept(need, success) == need

\* lines 349-350
NeedNotifyAfterResult(need, success) == IF ~ success THEN TRUE ELSE need

\* faulty variant of ExceptionResult: the message is not truncated
ExceptionResultUntruncated(account_name, msg) ==
    [name |-> account_name, success |-> FALSE,
     detail |-> [kind |-> "exception", quota |-> 0, used |-> 0, status |-> 0,
                 msg |-> msg]]

\* lines 356-360: the result recorded for an exception
ExceptionResult(account_name, msg) ==
    [name |-> account_name, success |-> FALSE,
     detail |-> [kind |-> "exception", quota |-> 0, used |-> 0, status |-> 0,
                 msg |-> Take(msg, TruncLen)]]

\* line 363
CurrentHash(balances) ==
    IF balances # << >> THEN Str(generate_balance_hash(balances)) ELSE NoneStr

\* lines 364-376: balance_changed
BalanceChanged(cur, last) ==
    IF Truthy(cur)
    THEN IF last.isNone THEN TRUE ELSE cur.text # last.text
    ELSE FALSE

\* faulty variant of NeedNotifyAfterHash: a changed hash does not notify
NeedNotifyFirstRunOnly(need, cur, last) ==
    IF Truthy(cur)
    THEN IF last.isNone THEN TRUE ELSE need
    ELSE need

\* lines 364-376: need_notify
NeedNotifyAfterHash(need, cur, last) ==
    IF Truthy(cur)
    THEN IF last.isNone THEN TRUE
         ELSE IF cur.text # last.text THEN TRUE
         ELSE need
    ELSE need

\* faulty variant of CollectBalances: only the accounts that checked in
RECURSIVE CollectBalancesCheckedIn(_, _, _)
CollectBalancesCheckedIn(list, k, balances) ==
    IF k > Len(list) THEN << >>
    ELSE (IF DictHas(balances, k) /\ account_results[k].success
          THEN << [name |-> get_account_display_name(list[k], k - 1),
                   quota |-> DictGet(balances, k).quota,
                   used |-> DictGet(balances, k).used] >>
          ELSE << >>)
         \o CollectBalancesCheckedIn(list, k + 1, balances)

\* lines 380-388: one entry per account with a balance, in account order
RECURSIVE CollectBalances(_, _, _)
CollectBalances(list, k, balances) ==
    IF k > Len(list) THEN << >>
    ELSE (IF DictHas(balances, k)
          THEN << [name |-> get_account_display_name(list[k], k - 1),
                   quota |-> DictGet(balances, k).quota,
                   used |-> DictGet(balances, k).used] >>
          ELSE << >>)
         \o CollectBalances(list, k + 1, balances)

\* faulty variant of BalancesForNotification: collected whether or not the
\* hash changed
BalancesForNotificationAlways(changed, list, balances) ==
    CollectBalances(list, 1, balances)

\* lines 379-388: balances_for_notification
BalancesForNotification(changed, list, balances) ==
    IF changed THEN CollectBalances(list, 1, balances) ELSE << >>

\* faulty variant of ShouldSave: the hash is stored only when notifying
ShouldSaveWhenNotifying(cur) == Truthy(cur) /\ need_notify

\* line 391
ShouldSave(cur) == Truthy(cur)

\* faulty variant of ShouldPush: `or` for `and`
ShouldPushAnyResult(need, results, balances) ==
    need \/ (results # << >> \/ balances # << >>)

\* line 394
ShouldPush(need, results, balances) == need /\ (results # << >> \/ balances # << >>)

\* format_balance_markdown(account_name, quota, used)
format_balance_markdown(account_name, quota, used) ==
    << [text |-> "name", name |-> account_name, value |-> 0],
       [text |-> "quota", name |-> account_name, value |-> quota],
       [text |-> "used", name |-> account_name, value |-> used] >>

RECURSIVE BalanceLines(_)
BalanceLines(balances) ==
    IF balances = << >> THEN << >>
    ELSE format_balance_markdown(Head(balances).name, Head(balances).quota,
                                 Head(balances).used)
         \o BalanceLines(Tail(balances))

RECURSIVE DetailLines(_)
DetailLines(results) ==
    IF results = << >> THEN << >>
    ELSE << [icon_ok |-> Head(results).success, name |-> Head(results).name,
             detail |-> EmptyDetail, is_detail |-> FALSE] >>
         \o (IF Head(results).detail.kind # "empty"
             THEN << [icon_ok |-> Head(results).success, name |-> Head(results).name,
                      detail |-> Head(results).detail, is_detail |-> TRUE] >>
             ELSE << >>)
         \o DetailLines(Tail(results))

\* lines 418-429
SummaryLines(count, total) ==
    [success |-> count, failed |-> total - count, total |-> total,
     tier |-> IF count = total THEN "all" ELSE IF count > 0 THEN "partial" ELSE "none"]

\* lines 396-433: notify_content, section by section (the time stamp left out)
NotifyContent(balances, results, count, total) ==
    [balance_section |-> BalanceLines(balances),
     detail_section |-> DetailLines(results),
     summary |-> SummaryLines(count, total)]

\* faulty variant of MainExitCode: >= for >
ExitCodeNonNegative(count) == IF count >= 0 THEN 0 ELSE 1

\* faulty variant of MainExitCode: a failed delivery counts as a failed run
ExitCodeDeliveryChecked(count) ==
    IF count > 0 /\ log.delivery # "failed" THEN 0 ELSE 1

\* line 442
MainExitCode(count) == IF count > 0 THEN 0 ELSE 1

\* notify.push_message(title, content): delivers or fails, and returns
DeliveryOutcomes == {"delivered", "failed"}

-----------------------------------------------------------------------------
(* The run *)

\* balance_hash.txt as an earlier run or an editor may have left it
PriorBalances(n) ==
    [k \in 1..n |-> [key |-> k, val |-> [quota |-> Round2(4000000), used |-> 0]]]

PriorFiles ==
    { [exists |-> FALSE, readable |-> FALSE, text |-> << >>],
      [exists |-> TRUE, readable |-> FALSE,
       text |-> generate_balance_hash(PriorBalances(1))],
      [exists |-> TRUE, readable |-> TRUE,
       text |-> generate_balance_hash(PriorBalances(1)) \o << Ws >>] }

\* no function is applied on its own during a run of main()
NoCall == [fn |-> "none", done |-> FALSE, arg |-> << >>, ret |-> << >>]

\* main() has not run before in this model run
NoFirstRun ==
    [done |-> FALSE, reads |-> {}, file |-> [exists |-> FALSE, readable |-> FALSE, text |-> << >>],
     io_ok |-> TRUE, notified |-> FALSE]

\* msg: the exception message of a raise, the quota read by a successful get
Event(op, acct, ok, msg) == [op |-> op, acct |-> acct, ok |-> ok, msg |-> msg]

Logged(e) == [log EXCEPT !.events = Append(@, e)]

Init ==
    /\ env \in EnvValues
    /\ hashFile \in PriorFiles
    /\ pc = "load_accounts"
    /\ accounts = NoAccounts
    /\ last_balance_hash = NoneStr
    /\ i = 0
    /\ phase = "idle"
    /\ user_info = NoneInfo
    /\ success_count = 0
    /\ account_results = << >>
    /\ current_balances = << >>
    /\ need_notify = FALSE
    /\ balance_changed = FALSE
    /\ balances_for_notification = << >>
    /\ current_balance_hash = NoneStr
    /\ exit_code = -1
    /\ acctState = << >>
    /\ clientOpen = {}
    /\ log = [events |-> << >>, pushed |-> << >>, delivery |-> "none"]
    /\ call = NoCall
    /\ first = NoFirstRun

\* lines 307-313: load the configuration, exit 1 without accounts
LoadAccounts ==
    /\ pc = "load_accounts"
    /\ accounts' = load_accounts(env)
    /\ IF NotAccounts(accounts')
       THEN /\ pc' = "exited"
            /\ exit_code' = 1
            /\ acctState' = acctState
       ELSE /\ pc' = "load_hash"
            /\ exit_code' = exit_code
            /\ acctState' = [k \in 1..Len(accounts'.list) |-> "PENDING"]
    /\ UNCHANGED << call, first, env, hashFile, last_balance_hash, i, phase, user_info,
                    success_count, account_results, current_balances, need_notify,
                    balance_changed, balances_for_notification,
                    current_balance_hash, clientOpen, log >>

\* lines 315-325: read the stored hash
LoadBalanceHash ==
    /\ pc = "load_hash"
    /\ last_balance_hash' = load_balance_hash(hashFile)
    /\ log' = Logged(Event("read_hash", 0, ~ last_balance_hash'.isNone, << >>))
    /\ pc' = "loop"
    /\ UNCHANGED << call, first, env, hashFile, accounts, i, phase, user_info, success_count,
                    account_results, current_balances, need_notify, balance_changed,
                    balances_for_notification, current_balance_hash, exit_code,
                    acctState, clientOpen >>

\* lines 331-351: main takes the value check_in_account returned for account i
RecordReturn(success, info) ==
    /\ success_count' = IF success THEN success_count + 1 ELSE success_count
    /\ current_balances' = BalancesAfter(current_balances, i + 1, info)
    /\ account_results' =
          Append(account_results,
                 [name |-> get_account_display_name(accounts.list[i + 1], i),
                  success |-> success,
                  detail |-> DetailMessage(info)])
    /\ need_notify' = NeedNotifyAfterResult(need_notify, success)
    /\ acctState' = [acctState EXCEPT ![i + 1] = IF success THEN "CHECKED_IN" ELSE "FAILED"]
    /\ i' = i + 1
    /\ phase' = "idle"
    /\ user_info' = NoneInfo

\* faulty variant of RecordException: no result is recorded
RecordExceptionNoResult(msg) ==
    /\ need_notify' = TRUE
    /\ acctState' = [acctState EXCEPT ![i + 1] = "FAILED"]
    /\ i' = i + 1
    /\ phase' = "idle"
    /\ user_info' = NoneInfo
    /\ UNCHANGED << success_count, current_balances, account_results >>

\* lines 353-360: main catches an exception check_in_account let through
RecordException(msg) ==
    /\ need_notify' = TRUE
    /\ account_results' =
          Append(account_results,
                 ExceptionResult(get_account_display_name(accounts.list[i + 1], i), msg))
    /\ acctState' = [acctState EXCEPT ![i + 1] = "FAILED"]
    /\ i' = i + 1
    /\ phase' = "idle"
    /\ user_info' = NoneInfo
    /\ UNCHANGED << success_count, current_balances >>

\* faulty variant of StartAccount: check_in_account is started and not
\* awaited, the loop goes on to the next account
StartAccountNotAwaited ==
    /\ pc = "loop"
    /\ phase = "idle"
    /\ i < Len(accounts.list)
    /\ LET account_info == accounts.list[i + 1]
       IN  IF account_info.api_user = "" \/ parse_cookies(account_info.cookies) = << >>
           THEN RecordReturn(FALSE, NoneInfo)
           ELSE /\ i' = i + 1
                /\ acctState' = [acctState EXCEPT ![i + 1] = "ACQUIRING_COOKIES"]
                /\ UNCHANGED << phase, user_info, success_count, account_results,
                                current_balances, need_notify >>
    /\ UNCHANGED << call, first, env, hashFile, pc, accounts, last_balance_hash, balance_changed,
                    balances_for_notification, current_balance_hash, exit_code,
                    clientOpen, log >>

\* lines 327-331, 212-230: the loop enters account i; check_in_account checks
\* the configuration and calls the cookie acquirer
StartAccount ==
    /\ pc = "loop"
    /\ phase = "idle"
    /\ i < Len(accounts.list)
    /\ LET account_info == accounts.list[i + 1]
       IN  IF account_info.api_user = "" \/ parse_cookies(account_info.cookies) = << >>
           THEN RecordReturn(FALSE, NoneInfo)
           ELSE /\ phase' = "acquiring"
                /\ acctState' = [acctState EXCEPT ![i + 1] = "ACQUIRING_COOKIES"]
                /\ UNCHANGED << i, user_info, success_count, account_results,
                                current_balances, need_notify >>
    /\ UNCHANGED << call, first, env, hashFile, pc, accounts, last_balance_hash, balance_changed,
                    balances_for_notification, current_balance_hash, exit_code,
                    clientOpen, log >>

\* lines 230-236: the cookie acquirer answers; with cookies the HTTP client
\* is constructed
AcquireCookies ==
    /\ pc = "loop"
    /\ phase = "acquiring"
    /\ \E outcome \in AcquireOutcomes :
          LET got == get_waf_cookies_with_playwright(outcome)
          IN  IF got.raised
              THEN /\ RecordException(got.msg)
                   /\ log' = Logged(Event("raise_launch", i + 1, FALSE, got.msg))
                   /\ clientOpen' = clientOpen
              ELSE IF got.cookies.isNone
              THEN /\ RecordReturn(FALSE, NoneInfo)
                   /\ log' = Logged(Event(IF outcome.kind = "page_raises"
                                          THEN "raise_page" ELSE "cookies",
                                          i + 1, FALSE, got.msg))
                   /\ clientOpen' = clientOpen
              ELSE \E made \in ClientOutcomes :
                     IF made.raised
                     THEN /\ RecordException(made.msg)
                          /\ log' = [log EXCEPT !.events =
                                        @ \o << Event("cookies", i + 1, TRUE, << >>),
                                                Event("raise_client", i + 1, FALSE, made.msg) >>]
                          /\ clientOpen' = clientOpen
                     ELSE /\ phase' = "session"
                          /\ acctState' = [acctState EXCEPT ![i + 1] = "SESSION_ACTIVE"]
                          /\ clientOpen' = clientOpen \cup {i + 1}
                          /\ log' = [log EXCEPT !.events =
                                        @ \o << Event("cookies", i + 1, TRUE, << >>),
                                                Event("client_open", i + 1, TRUE, << >>) >>]
                          /\ UNCHANGED << i, user_info, success_count, account_results,
                                          current_balances, need_notify >>
    /\ UNCHANGED << call, first, env, hashFile, pc, accounts, last_balance_hash, balance_changed,
                    balances_for_notification, current_balance_hash, exit_code >>

\* faulty variant of FetchProfile: a failed profile fetch ends the account,
\* as a failed cookie acquisition does
FetchProfileOrFail ==
    /\ pc = "loop"
    /\ phase = "session"
    /\ \E response \in RunProfileResponses :
          /\ log' = [log EXCEPT !.events =
                        @ \o (IF response.raised
                              THEN << Event("raise_profile", i + 1, FALSE, response.msg) >>
                              ELSE << >>)
                          \o << Event("get", i + 1, get_user_info(response).success,
                                      IF get_user_info(response).success
                                      THEN << get_user_info(response).quota >>
                                      ELSE << >>) >>]
          /\ IF get_user_info(response).success
             THEN /\ user_info' = get_user_info(response)
                  /\ phase' = "checkin"
                  /\ UNCHANGED << i, success_count, account_results, current_balances,
                                  need_notify, acctState, clientOpen >>
             ELSE /\ RecordReturn(FALSE, get_user_info(response))
                  /\ clientOpen' = clientOpen \ {i + 1}
    /\ UNCHANGED << call, first, env, hashFile, pc, accounts, last_balance_hash,
                    balance_changed, balances_for_notification,
                    current_balance_hash, exit_code >>

\* lines 238-261: the profile fetch
FetchProfile ==
    /\ pc = "loop"
    /\ phase = "session"
    /\ \E response \in RunProfileResponses :
          /\ user_info' = get_user_info(response)
          /\ log' = [log EXCEPT !.events =
                        @ \o (IF response.raised
                              THEN << Event("raise_profile", i + 1, FALSE, response.msg) >>
                              ELSE << >>)
                          \o << Event("get", i + 1, user_info'.success,
                                      IF user_info'.success
                                      THEN << user_info'.quota >> ELSE << >>) >>]
    /\ phase' = "checkin"
    /\ UNCHANGED << call, first, env, hashFile, pc, accounts, last_balance_hash, i, success_count,
                    account_results, current_balances, need_notify, balance_changed,
                    balances_for_notification, current_balance_hash, exit_code,
                    acctState, clientOpen >>

\* lines 263-299: the check-in request, the release of the client, and the
\* return to main
CheckIn ==
    /\ pc = "loop"
    /\ phase = "checkin"
    /\ \E response \in CheckinResponses :
          LET result == checkin_result(response, user_info)
          IN  /\ RecordReturn(result.success, result.user_info)
              /\ clientOpen' = ClientAfter(clientOpen, i + 1, result.raised)
              /\ log' = [log EXCEPT !.events =
                            @ \o (IF result.raised
                                  THEN << Event("raise_checkin", i + 1, FALSE, result.msg) >>
                                  ELSE << >>)
                              \o << Event("post", i + 1, result.success, << >>) >>
                              \o (IF (i + 1) \notin clientOpen'
                                  THEN << Event("client_close", i + 1, TRUE, << >>) >>
                                  ELSE << >>)]
    /\ UNCHANGED << call, first, env, hashFile, pc, accounts, last_balance_hash, balance_changed,
                    balances_for_notification, current_balance_hash, exit_code >>

\* faulty variant of AfterLoop: the stored hash is read again at the decision
AfterLoopReadingAgain ==
    /\ pc = "loop"
    /\ phase = "idle"
    /\ i = Len(accounts.list)
    /\ last_balance_hash' = load_balance_hash(hashFile)
    /\ current_balance_hash' = CurrentHash(current_balances)
    /\ balance_changed' = BalanceChanged(current_balance_hash', last_balance_hash')
    /\ need_notify' =
          NeedNotifyAfterHash(need_notify, current_balance_hash', last_balance_hash')
    /\ balances_for_notification' =
          BalancesForNotification(balance_changed', accounts.list, current_balances)
    /\ UNCHANGED << call, first, env, accounts, i, phase, user_info,
                    success_count, account_results, current_balances, acctState,
                    clientOpen >>
    /\ \E outcome \in SaveOutcomes, d \in DeliveryOutcomes :
          LET save == ShouldSave(current_balance_hash)'
              push == ShouldPush(need_notify, account_results,
                                 balances_for_notification)'
          IN  /\ hashFile' =
                    IF save
                    THEN save_balance_hash(hashFile, current_balance_hash'.text, outcome)
                    ELSE hashFile
              /\ log' =
                    [events |->
                        Append(log.events,
                                    Event("read_hash", 0, ~ last_balance_hash'.isNone, << >>))
                        \o (IF save
                            THEN << Event("write_hash", 0, outcome = "written", << >>) >>
                            ELSE << >>)
                        \o (IF push
                            THEN << Event("push", 0, d = "delivered", << >>) >>
                            ELSE << >>),
                     pushed |->
                        IF push
                        THEN Append(log.pushed,
                                    NotifyContent(balances_for_notification',
                                                  account_results, success_count,
                                                  Len(accounts.list)))
                        ELSE log.pushed,
                     delivery |-> IF push THEN d ELSE log.delivery]
    /\ exit_code' = MainExitCode(success_count)'
    /\ pc' = "exited"

\* lines 362-442, the end of main() after the loop: the notification
\* decision, the write of the hash (390-392), the notification built and
\* pushed or skipped (394-439), and sys.exit (442); SystemExit is none of
\* the exceptions run_main handles (lines 447-454)
AfterLoop ==
    /\ pc = "loop"
    /\ phase = "idle"
    /\ i = Len(accounts.list)
    /\ current_balance_hash' = CurrentHash(current_balances)
    /\ balance_changed' = BalanceChanged(current_balance_hash', last_balance_hash)
    /\ need_notify' =
          NeedNotifyAfterHash(need_notify, current_balance_hash', last_balance_hash)
    /\ balances_for_notification' =
          BalancesForNotification(balance_changed', accounts.list, current_balances)
    /\ UNCHANGED << call, first, env, accounts, last_balance_hash, i, phase, user_info,
                    success_count, account_results, current_balances, acctState,
                    clientOpen >>
    /\ \E outcome \in SaveOutcomes, d \in DeliveryOutcomes :
          LET save == ShouldSave(current_balance_hash)'
              push == ShouldPush(need_notify, account_results,
                                 balances_for_notification)'
          IN  /\ hashFile' =
                    IF save
                    THEN save_balance_hash(hashFile, current_balance_hash'.text, outcome)
                    ELSE hashFile
              /\ log' =
                    [events |->
                        log.events
                        \o (IF save
                            THEN << Event("write_hash", 0, outcome = "written", << >>) >>
                            ELSE << >>)
                        \o (IF push
                            THEN << Event("push", 0, d = "delivered", << >>) >>
                            ELSE << >>),
                     pushed |->
                        IF push
                        THEN Append(log.pushed,
                                    NotifyContent(balances_for_notification',
                                                  account_results, success_count,
                                                  Len(accounts.list)))
                        ELSE log.pushed,
                     delivery |-> IF push THEN d ELSE log.delivery]
    /\ exit_code' = MainExitCode(success_count)'
    /\ pc' = "exited"

Next ==
    \/ LoadAccounts
    \/ LoadBalanceHash
    \/ StartAccount
    \/ AcquireCookies
    \/ FetchProfile
    \/ CheckIn
    \/ AfterLoop

Spec == Init /\ [][Next]_vars

-----------------------------------------------------------------------------
(* The pure functions applied on their own, over all their arguments *)

\* bodies of a check-in answer: JSON objects with every combination of the
\* three markers, with and without the word in their text; plain text; a
\* JSON array
AnyBodies ==
    { [JsonBody(r, c, s) EXCEPT !.has_success_text = t] :
        r \in {Absent, Field(0), Field(1)}, c \in {Absent, Field(0), Field(1)},
        s \in BOOLEAN, t \in BOOLEAN }
    \cup { TextBody(t) : t \in BOOLEAN }
    \cup { [TextBody(t) EXCEPT !.kind = "json_array"] : t \in BOOLEAN }

AnyCheckinResponses ==
    { [raised |-> FALSE, msg |-> << >>, status |-> st, body |-> b] :
        st \in {200, 403}, b \in AnyBodies }
    \cup { [raised |-> TRUE, msg |-> ShortMsg, status |-> 0, body |-> TextBody(FALSE)] }

\* the user_info at hand when the check-in is sent
AnyUserInfo == { get_user_info(r) : r \in ProfileResponses }

\* the dicts of balances over the account keys 1..MaxAccounts, in every
\* insertion order
RECURSIVE DictsOver(_)
DictsOver(keys) ==
    IF keys = {} THEN { << >> }
    ELSE { << >> } \cup
         UNION { { << [key |-> k, val |-> [quota |-> q, used |-> u]] >> \o d :
                     q \in {Round2(4000000), Round2(5002000)},
                     u \in {0, Round2(1250000)}, d \in DictsOver(keys \ {k}) } :
                 k \in keys }

AnyBalances ==
    { [isNone |-> TRUE, entries |-> << >>] }
    \cup { [isNone |-> FALSE, entries |-> d] : d \in DictsOver(1..MaxAccounts) }

InitPure ==
    /\ \/ \E r \in AnyCheckinResponses, info \in AnyUserInfo :
             call = [fn |-> "checkin_result", done |-> FALSE,
                     arg |-> [response |-> r, user_info |-> info], ret |-> << >>]
       \/ \E b1, b2 \in AnyBalances :
             call = [fn |-> "generate_balance_hash", done |-> FALSE,
                     arg |-> << b1, b2 >>, ret |-> << >>]
    /\ first = NoFirstRun
    /\ env = [kind |-> "unset", items |-> << >>]
    /\ hashFile = [exists |-> FALSE, readable |-> FALSE, text |-> << >>]
    /\ pc = "pure"
    /\ accounts = NoAccounts
    /\ last_balance_hash = NoneStr
    /\ i = 0
    /\ phase = "idle"
    /\ user_info = NoneInfo
    /\ success_count = 0
    /\ account_results = << >>
    /\ current_balances = << >>
    /\ need_notify = FALSE
    /\ balance_changed = FALSE
    /\ balances_for_notification = << >>
    /\ current_balance_hash = NoneStr
    /\ exit_code = -1
    /\ acctState = << >>
    /\ clientOpen = {}
    /\ log = [events |-> << >>, pushed |-> << >>, delivery |-> "none"]

\* lines 269-297 on one answer of client.post
CallCheckinResult ==
    /\ call.fn = "checkin_result"
    /\ ~ call.done
    /\ call' = [call EXCEPT !.done = TRUE,
                            !.ret = checkin_result(call.arg.response, call.arg.user_info)]
    /\ UNCHANGED << first, env, hashFile, pc, accounts, last_balance_hash, i, phase,
                    user_info, success_count, account_results, current_balances,
                    need_notify, balance_changed, balances_for_notification,
                    current_balance_hash, exit_code, acctState, clientOpen, log >>

\* generate_balance_hash on each of two balance dicts
CallGenerateBalanceHash ==
    /\ call.fn = "generate_balance_hash"
    /\ ~ call.done
    /\ call' = [call EXCEPT !.done = TRUE,
                            !.ret = << generate_balance_hash(BalancesOrEmpty(call.arg[1])),
                                       generate_balance_hash(BalancesOrEmpty(call.arg[2])) >>]
    /\ UNCHANGED << first, env, hashFile, pc, accounts, last_balance_hash, i, phase,
                    user_info, success_count, account_results, current_balances,
                    need_notify, balance_changed, balances_for_notification,
                    current_balance_hash, exit_code, acctState, clientOpen, log >>

NextPure ==
    \/ CallCheckinResult
    \/ CallGenerateBalanceHash

SpecPure == InitPure /\ [][NextPure]_vars

-----------------------------------------------------------------------------
(* Two consecutive runs of main() over the same configuration, the second *)
(* one started with balance_hash.txt as the first one left it              *)

\* the balances read by the profile fetches of the current run
QuotasRead ==
    { << log.events[e].acct, log.events[e].msg[1] >> :
        e \in { g \in 1..Len(log.events) :
                  log.events[g].op = "get" /\ log.events[g].ok } }

\* every save_balance_hash of the current run wrote the file
WritesOk ==
    \A w \in 1..Len(log.events) :
        log.events[w].op = "write_hash" => log.events[w].ok

\* the first run starts with accounts that can be processed and with a
\* hash file that is absent or can be read
InitTwoRuns ==
    /\ Init
    /\ env.kind = "array"
    /\ Len(env.items) >= 1
    /\ \A k \in 1..Len(env.items) : env.items[k] \in {ElemNamed, ElemAnon}
    /\ hashFile.exists => hashFile.readable

\* run_main() is started again: a new process, the same ANYROUTER_ACCOUNTS,
\* the file as it is
StartSecondRun ==
    /\ pc = "exited"
    /\ ~ first.done
    /\ first' = [done |-> TRUE, reads |-> QuotasRead, file |-> hashFile,
                 io_ok |-> WritesOk, notified |-> log.pushed # << >>]
    /\ pc' = "load_accounts"
    /\ accounts' = NoAccounts
    /\ last_balance_hash' = NoneStr
    /\ i' = 0
    /\ phase' = "idle"
    /\ user_info' = NoneInfo
    /\ success_count' = 0
    /\ account_results' = << >>
    /\ current_balances' = << >>
    /\ need_notify' = FALSE
    /\ balance_changed' = FALSE
    /\ balances_for_notification' = << >>
    /\ current_balance_hash' = NoneStr
    /\ exit_code' = -1
    /\ acctState' = << >>
    /\ clientOpen' = {}
    /\ log' = [events |-> << >>, pushed |-> << >>, delivery |-> "none"]
    /\ UNCHANGED << call, env, hashFile >>

NextTwoRuns ==
    \/ Next
    \/ StartSecondRun

SpecTwoRuns == InitTwoRuns /\ [][NextTwoRuns]_vars

-----------------------------------------------------------------------------
(* Properties *)

\* the configured accounts were loaded and the list is not empty
Loaded == pc # "load_accounts" /\ ~ accounts.isNone /\ Len(accounts.list) >= 1

\* the account loop is over and the notification decision is taken
Decided == Loaded /\ pc = "exited"

EventsOf(ops) == { k \in 1..Len(log.events) : log.events[k].op \in ops }

\* accounts whose check-in request was answered with success
SucceededAccounts ==
    { log.events[k].acct : k \in { j \in EventsOf({"post"}) : log.events[j].ok } }

\* accounts whose profile fetch returned success
ProfileOkAccounts ==
    { log.events[k].acct : k \in { j \in EventsOf({"get"}) : log.events[j].ok } }

AnyFailed == \E k \in 1..Len(account_results) : ~ account_results[k].success

AllSucceeded == \A k \in 1..Len(account_results) : account_results[k].success

Terminal == {"CHECKED_IN", "FAILED"}

\* C1: a run that loaded a non-empty account list exits with 0 or 1, and
\* with 0 exactly when success_count >= 1, success_count being the number
\* of accounts whose check-in was answered with success.
C1_ExitCodeIffSuccess ==
    (Loaded /\ pc = "exited") =>
        /\ exit_code \in {0, 1}
        /\ (exit_code = 0 <=> success_count >= 1)
        /\ success_count = Cardinality(SucceededAccounts)

C1_Witness ==
    /\ Loaded /\ pc = "exited"
    /\ Len(accounts.list) = 2
    /\ success_count = 1
    /\ exit_code = 0

\* C2 as stated: at the decision point need_notify is true when (a) an
\* account failed, (b) a previous hash was loaded and differs from
\* current_hash, a null current_hash included, (c) no previous hash was
\* loaded and current_hash is non-null.
C2_AsStated ==
    Decided =>
        ((\/ AnyFailed
          \/ (/\ ~ last_balance_hash.isNone
              /\ last_balance_hash.text # << >>
              /\ last_balance_hash # current_balance_hash)
          \/ (last_balance_hash.isNone /\ ~ current_balance_hash.isNone))
         => need_notify)

\* C2 amended: as C2, with case (b) holding only for a non-null
\* current_hash: a previous hash was loaded, a balance was collected, and
\* the two hashes differ.
C2_NeedNotifyCases ==
    Decided =>
        ((\/ AnyFailed
          \/ (/\ ~ last_balance_hash.isNone
              /\ ~ current_balance_hash.isNone
              /\ last_balance_hash.text # current_balance_hash.text)
          \/ (last_balance_hash.isNone /\ ~ current_balance_hash.isNone))
         => need_notify)

C2_Witness ==
    /\ Decided
    /\ ~ AnyFailed
    /\ ~ last_balance_hash.isNone
    /\ ~ current_balance_hash.isNone
    /\ last_balance_hash.text # current_balance_hash.text
    /\ need_notify

\* C3: when every check-in succeeded and the hash of the collected balances
\* equals the stored one, need_notify is false at the decision point,
\* push_message is never called, and the run exits with 0.
C3_QuietWhenUnchanged ==
    (Decided /\ AllSucceeded /\ current_balance_hash = last_balance_hash) =>
        /\ ~ need_notify
        /\ log.pushed = << >>
        /\ EventsOf({"push"}) = {}
        /\ (pc = "exited" => exit_code = 0)

C3_Witness ==
    /\ Decided /\ pc = "exited"
    /\ Len(accounts.list) = 2
    /\ AllSucceeded
    /\ ~ current_balance_hash.isNone
    /\ current_balance_hash = last_balance_hash
    /\ exit_code = 0

\* C4: account_results holds one entry per processed account, in account
\* order; after the loop it holds one per configured account; and
\* 0 <= success_count <= N throughout.
C4_OneResultPerAccount ==
    Loaded =>
        /\ Len(account_results) =
              Cardinality({ k \in 1..Len(acctState) : acctState[k] \in Terminal })
        /\ \A k \in 1..Len(account_results) :
              /\ acctState[k] \in Terminal
              /\ account_results[k].name =
                    get_account_display_name(accounts.list[k], k - 1)
        /\ 0 <= success_count /\ success_count <= Len(accounts.list)
        /\ (Decided => Len(account_results) = Len(accounts.list))

C4_Witness ==
    /\ Decided
    /\ Len(accounts.list) = 2
    /\ account_results[1].detail.kind = "exception"
    /\ account_results[2].success
    /\ account_results[1].name # account_results[2].name

RaiseOps == {"raise_launch", "raise_page", "raise_client", "raise_profile", "raise_checkin"}

\* the account of event k has its result recorded
Recorded(k) == log.events[k].acct <= Len(account_results)

ResultOf(k) == account_results[log.events[k].acct]

\* C5 as stated: after the loop current_balances has an entry for account k
\* exactly when the profile fetch of account k returned success, whatever
\* the check-in did afterwards.
C5_AsStated ==
    Decided =>
        \A k \in 1..Len(accounts.list) :
            k \in ProfileOkAccounts <=> DictHas(current_balances, k)

\* C6 as stated: whenever an exception is raised while account k is
\* processed, the result of account k has success = false and a detail with
\* the exception message cut to 50 characters, need_notify is true, and the
\* later accounts are still processed.
C6_AsStated ==
    \A e \in EventsOf(RaiseOps) :
        Recorded(e) =>
            /\ ~ ResultOf(e).success
            /\ ResultOf(e).detail.kind = "exception"
            /\ ResultOf(e).detail.msg = Take(log.events[e].msg, TruncLen)
            /\ need_notify
            /\ (pc = "exited" => Len(account_results) = Len(accounts.list))

\* C6 amended: an exception that leaves check_in_account (raised when the
\* browser is started or when the HTTP client is constructed) is caught in
\* the loop of main and recorded as a failure whose detail is the message
\* cut to 50 characters.  An exception raised while the login page is
\* loaded, or by the check-in request, is caught inside the callee and
\* recorded as a failure with an empty detail.  In these cases need_notify
\* is true.  An exception of the profile fetch is caught in get_user_info:
\* unless the check-in request raises too, the detail is the error text
\* with the message cut to 50 characters and success is decided by the
\* check-in request.  In every case the later accounts are still processed.
C6_ExceptionsContained ==
    \A e \in EventsOf(RaiseOps) :
        Recorded(e) =>
            /\ log.events[e].op \in {"raise_launch", "raise_client"} =>
                  /\ ~ ResultOf(e).success
                  /\ ResultOf(e).detail.kind = "exception"
                  /\ ResultOf(e).detail.msg = Take(log.events[e].msg, TruncLen)
                  /\ need_notify
            /\ log.events[e].op \in {"raise_page", "raise_checkin"} =>
                  /\ ~ ResultOf(e).success
                  /\ ResultOf(e).detail.kind = "empty"
                  /\ need_notify
            /\ (/\ log.events[e].op = "raise_profile"
                /\ \A f \in EventsOf({"raise_checkin"}) :
                      log.events[f].acct # log.events[e].acct) =>
                  /\ ResultOf(e).detail.kind = "error_exception"
                  /\ ResultOf(e).detail.msg = Take(log.events[e].msg, TruncLen)
                  /\ ResultOf(e).success <=> log.events[e].acct \in SucceededAccounts
            /\ Len(ResultOf(e).detail.msg) <= TruncLen
            /\ (Decided => \A k \in 1..Len(accounts.list) : acctState[k] \in Terminal)
            /\ (pc = "exited" => Len(account_results) = Len(accounts.list))

C6_Witness ==
    /\ pc = "exited"
    /\ Len(accounts.list) = 2
    /\ \E e \in EventsOf({"raise_launch"}) :
          /\ log.events[e].acct = 1
          /\ Len(log.events[e].msg) > TruncLen
    /\ account_results[1].detail.kind = "exception"
    /\ acctState[2] = "CHECKED_IN"

C8_HashSavedOnce ==
    /\ Cardinality(EventsOf({"write_hash"})) <= 1
    /\ (Loaded /\ pc = "exited" /\ current_balances # << >>) =>
          /\ Cardinality(EventsOf({"write_hash"})) = 1
          /\ EventsOf({"push"}) # {} =>
                (CHOOSE w \in EventsOf({"write_hash"}) : TRUE)
                    < (CHOOSE q \in EventsOf({"push"}) : TRUE)
          /\ \A w \in EventsOf({"write_hash"}) :
                log.events[w].ok =>
                    hashFile = [exists |-> TRUE, readable |-> TRUE,
                                text |-> generate_balance_hash(current_balances)]

C8_Witness ==
    /\ pc = "exited"
    /\ current_balances # << >>
    /\ ~ need_notify
    /\ \E w \in EventsOf({"write_hash"}) : log.events[w].ok
    /\ hashFile.text = current_balance_hash.text

\* C9: when load_accounts returns None or an empty list the run exits with
\* 1 at once: no cookie acquisition, no HTTP client or request, no read or
\* write of the hash file, no notification.
C9_NoAccountsExitsAtOnce ==
    (pc # "load_accounts" /\ (accounts.isNone \/ Len(accounts.list) = 0)) =>
        /\ pc = "exited"
        /\ exit_code = 1
        /\ log.events = << >>
        /\ log.pushed = << >>
        /\ clientOpen = {}
        /\ acctState = << >>
        /\ phase = "idle"
        /\ hashFile \in PriorFiles

C9_Witness ==
    /\ pc = "exited"
    /\ env.kind = "array"
    /\ ~ accounts.isNone
    /\ accounts.list = << >>
    /\ exit_code = 1

\* C10: a client opened for an account is closed before the processing of
\* that account ends, on every path: at most one client is open at a time,
\* only the current account's, none between accounts or after the loop, and
\* every client_open of a recorded account has its client_close.
C10_ClientReleased ==
    /\ Cardinality(clientOpen) <= 1
    /\ (pc # "loop" \/ phase \in {"idle", "acquiring"}) => clientOpen = {}
    /\ clientOpen \subseteq {i + 1}
    /\ \A o \in EventsOf({"client_open"}) :
          Recorded(o) =>
              \E c \in EventsOf({"client_close"}) :
                  c > o /\ log.events[c].acct = log.events[o].acct

C10_Witness ==
    /\ pc = "exited"
    /\ Cardinality(EventsOf({"client_open"})) = 2
    /\ EventsOf({"raise_checkin"}) # {}
    /\ clientOpen = {}

\* the notification bodies pushed so far
Pushed == 1..Len(log.pushed)

C12_BalanceSectionComplete ==
    \A p \in Pushed :
        balance_changed =>
            /\ Len(log.pushed[p].balance_section) = 3 * Len(current_balances)
            /\ \A j \in 1..Len(current_balances) :
                  /\ \A h \in 1..(j - 1) : current_balances[h].key < current_balances[j].key
                  /\ log.pushed[p].balance_section[3 * j - 2].text = "name"
                  /\ log.pushed[p].balance_section[3 * j - 1].text = "quota"
                  /\ log.pushed[p].balance_section[3 * j].text = "used"
                  /\ \A l \in (3 * j - 2)..(3 * j) :
                        log.pushed[p].balance_section[l].name =
                           get_account_display_name(
                               accounts.list[current_balances[j].key],
                               current_balances[j].key - 1)
                  /\ log.pushed[p].balance_section[3 * j - 1].value
                        = current_balances[j].val.quota
                  /\ log.pushed[p].balance_section[3 * j].value
                        = current_balances[j].val.used

C12_Witness ==
    /\ Pushed # {}
    /\ balance_changed
    /\ Len(accounts.list) = 2
    /\ Len(current_balances) = 2
    /\ last_balance_hash.text = generate_balance_hash(PriorBalances(1))
    /\ current_balances[1].val.quota = Round2(4000000)
    /\ current_balances[2].val.quota # Round2(4000000)
    /\ account_results[1].success
    /\ ~ account_results[2].success
    /\ Len(log.pushed[1].balance_section) = 6

\* accounts whose cookies are being acquired or whose HTTP session is open
InFlight ==
    { k \in 1..Len(acctState) : acctState[k] \in {"ACQUIRING_COOKIES", "SESSION_ACTIVE"} }

\* C13: the accounts are processed one at a time in list order: an account
\* has left PENDING only if every account before it is CHECKED_IN or FAILED
\* with its result recorded, at most one account is in ACQUIRING_COOKIES or
\* SESSION_ACTIVE, and the calls made for the accounts follow one another
\* in list order, with no other call between them.
C13_OneAtATime ==
    /\ \A k \in 1..Len(acctState) :
          acctState[k] # "PENDING" =>
              \A j \in 1..(k - 1) :
                  acctState[j] \in Terminal /\ j <= Len(account_results)
    /\ Cardinality(InFlight) <= 1
    /\ \A b \in 2..Len(log.events) :
          log.events[b].acct > 0 =>
              /\ log.events[b - 1].acct <= log.events[b].acct
              /\ log.events[b - 1].acct = 0 => b = 2

C13_Witness ==
    /\ Len(acctState) = 2
    /\ acctState[1] \in Terminal
    /\ Len(account_results) = 1
    /\ acctState[2] = "SESSION_ACTIVE"
    /\ InFlight = {2}
    /\ \E a \in EventsOf({"post"}) : log.events[a].acct = 1

\* C14: load_accounts() returns None when the variable is unset (or empty),
\* the text is not JSON, the JSON value is not an array, an element is not
\* an object, an element lacks cookies or api_user, or an element has a
\* name that is present and empty; otherwise it returns the whole list in
\* order. It never returns a strict sub-list.
C14_LoadAccountsFailClosed ==
    pc # "load_accounts" =>
        /\ accounts.isNone <=>
              \/ env.kind \in {"unset", "empty"}
              \/ env.kind = "badjson"
              \/ env.kind = "nonarray"
              \/ \E k \in 1..Len(env.items) :
                    \/ ~ env.items[k].isDict
                    \/ "cookies" \notin env.items[k].keys
                    \/ "api_user" \notin env.items[k].keys
                    \/ ("name" \in env.items[k].keys /\ env.items[k].name = "")
        /\ ~ accounts.isNone => accounts.list = env.items
        /\ accounts.isNone => accounts.list = << >>

C14_Witness ==
    /\ pc = "exited"
    /\ env.kind = "array"
    /\ Len(env.items) = 2
    /\ env.items[1] = ElemNamed
    /\ env.items[2] = ElemEmptyName
    /\ accounts.isNone
    /\ log.events = << >>

\* C15: the check-in step reports success exactly when the answer has
\* status 200 and either its body is a JSON object with ret = 1, code = 0 or
\* a true success field, or its body is not JSON and its text contains
\* "success"; every other answer is reported as a failure.
C15_CheckinSuccessExactly ==
    (call.fn = "checkin_result" /\ call.done) =>
        (call.ret.success <=>
            /\ ~ call.arg.response.raised
            /\ call.arg.response.status = 200
            /\ \/ /\ call.arg.response.body.kind = "json_object"
                  /\ \/ call.arg.response.body.ret = Field(1)
                     \/ call.arg.response.body.code = Field(0)
                     \/ call.arg.response.body.success
               \/ /\ call.arg.response.body.kind = "text"
                  /\ call.arg.response.body.has_success_text)

C15_Witness ==
    /\ call.fn = "checkin_result"
    /\ call.done
    /\ call.arg.response.status = 200
    /\ call.arg.response.body.kind = "json_object"
    /\ call.arg.response.body.ret = Field(0)
    /\ call.arg.response.body.code = Field(0)
    /\ ~ call.arg.response.body.success
    /\ call.ret.success

KeysOf(d) == { d[j].key : j \in 1..Len(d) }

\* C16: two balance dicts with the same account keys and the same quota for
\* every key have the same hash, whatever their used values and their
\* insertion orders; an empty dict and None hash as the empty object.
C16_HashQuotaOnly ==
    (call.fn = "generate_balance_hash" /\ call.done) =>
        /\ (/\ ~ call.arg[1].isNone
            /\ ~ call.arg[2].isNone
            /\ KeysOf(call.arg[1].entries) = KeysOf(call.arg[2].entries)
            /\ \A k \in KeysOf(call.arg[1].entries) :
                  DictGet(call.arg[1].entries, k).quota
                     = DictGet(call.arg[2].entries, k).quota)
              => call.ret[1] = call.ret[2]
        /\ \A n \in 1..2 :
              (call.arg[n].isNone \/ call.arg[n].entries = << >>)
                  => call.ret[n] = << Digest(<< >>) >>

C16_Witness ==
    /\ call.fn = "generate_balance_hash"
    /\ call.done
    /\ Len(call.arg[1].entries) = 2
    /\ Len(call.arg[2].entries) = 2
    /\ call.arg[1].entries[1].key = 1
    /\ call.arg[2].entries[1].key = 2
    /\ \A k \in 1..2 :
          /\ DictGet(call.arg[1].entries, k).quota = DictGet(call.arg[2].entries, k).quota
          /\ DictGet(call.arg[1].entries, k).used # DictGet(call.arg[2].entries, k).used
    /\ call.ret[1] = call.ret[2]

\* the answers of the cookie acquirer
AcquireOps == {"cookies", "raise_launch", "raise_page"}

AcquiredFor(k) == \E e \in EventsOf(AcquireOps) : log.events[e].acct = k

\* C17 as stated: for every account of an accepted list, cookie acquisition
\* is invoked before the account reaches FAILED or SESSION_ACTIVE.
C17_AsStated ==
    \A k \in 1..Len(acctState) :
        acctState[k] \in {"FAILED", "SESSION_ACTIVE", "CHECKED_IN"} => AcquiredFor(k)

\* C17 amended: for an account of an accepted list, cookie acquisition is
\* invoked before the account reaches FAILED or SESSION_ACTIVE exactly when
\* its api_user is not empty and its cookies hold at least one name=value
\* pair; any other account goes from PENDING to FAILED with no acquisition,
\* no client and no request, and an empty detail.
C17_AcquiredWhenConfigured ==
    LET acquired == { log.events[e].acct : e \in EventsOf(AcquireOps) }
        called == { log.events[e].acct : e \in 1..Len(log.events) }
    IN  \A k \in 1..Len(acctState) :
            acctState[k] \in {"FAILED", "SESSION_ACTIVE", "CHECKED_IN"} =>
                /\ k \in acquired <=>
                      /\ accounts.list[k].api_user # ""
                      /\ \E j \in 1..Len(accounts.list[k].cookies.segs) :
                            accounts.list[k].cookies.segs[j].eq
                /\ k \notin acquired =>
                      /\ acctState[k] = "FAILED"
                      /\ k \notin called
                      /\ account_results[k].detail = EmptyDetail
                      /\ ~ account_results[k].success

C17_Witness ==
    /\ Decided
    /\ Len(accounts.list) = 2
    /\ accounts.list[1] = ElemNoUser
    /\ accounts.list[2] = ElemNamed
    /\ acctState[1] = "FAILED"
    /\ acctState[2] = "CHECKED_IN"
    /\ ~ AcquiredFor(1)
    /\ AcquiredFor(2)
    /\ need_notify

\* C18: a failed profile fetch (status other than 200, success field false,
\* or an exception of the request) gives a failure value and does not end
\* the account: the session stays open for the check-in request, the
\* request is sent, and its answer alone decides between CHECKED_IN and
\* FAILED; the account has no entry in current_balances and its result has
\* no balance text (the profile error text, or nothing).
C18_ProfileFailureNotFatal ==
    /\ (pc = "loop" /\ phase = "checkin") => ~ user_info.isNone
    /\ \A g \in EventsOf({"get"}) :
          ~ log.events[g].ok =>
              /\ ~ DictHas(current_balances, log.events[g].acct)
              /\ ~ Recorded(g) =>
                    /\ acctState[log.events[g].acct] = "SESSION_ACTIVE"
                    /\ phase = "checkin"
                    /\ ~ user_info.success
              /\ Recorded(g) =>
                    /\ \E q \in EventsOf({"post"}) :
                          /\ q > g
                          /\ log.events[q].acct = log.events[g].acct
                          /\ ResultOf(g).success <=> log.events[q].ok
                          /\ acctState[log.events[g].acct] =
                                IF log.events[q].ok THEN "CHECKED_IN" ELSE "FAILED"
                    /\ ResultOf(g).detail.kind
                          \in {"error_http", "error_exception", "empty"}

C18_Witness ==
    /\ Decided
    /\ \E g \in EventsOf({"get"}) :
          /\ ~ log.events[g].ok
          /\ log.events[g].acct = 1
    /\ EventsOf({"raise_profile"}) # {}
    /\ acctState[1] = "CHECKED_IN"
    /\ account_results[1].success
    /\ account_results[1].detail.kind = "error_exception"
    /\ current_balances = << >>

\* the cookie acquirer returned failure: required cookies missing, or an
\* exception while the login page was loaded
CookieFailures ==
    { e \in EventsOf({"cookies", "raise_page"}) : ~ log.events[e].ok }

SessionOps ==
    {"client_open", "raise_client", "get", "raise_profile", "post", "raise_checkin",
     "client_close"}

\* C19: when cookie acquisition returns failure for an account, the account
\* is FAILED with no HTTP client created and no request sent for it, its
\* result has success false and an empty detail, it has no balance,
\* need_notify is true, and the accounts after it are processed; a run
\* whose only account fails this way sends a notification and exits with 1.
C19_CookieFailure ==
    /\ \A e \in CookieFailures :
          /\ Recorded(e)
          /\ acctState[log.events[e].acct] = "FAILED"
          /\ ~ ResultOf(e).success
          /\ ResultOf(e).detail = EmptyDetail
          /\ ~ DictHas(current_balances, log.events[e].acct)
          /\ need_notify
          /\ log.events[e].acct \notin clientOpen
          /\ \A x \in EventsOf(SessionOps) : log.events[x].acct # log.events[e].acct
          /\ Decided => \A k \in 1..Len(acctState) :
                            acctState[k] \in Terminal /\ k <= Len(account_results)
    /\ (pc = "exited" /\ CookieFailures # {} /\ Len(accounts.list) = 1) =>
          /\ exit_code = 1
          /\ Len(log.pushed) = 1
          /\ EventsOf({"push"}) # {}

C19_Witness ==
    /\ pc = "exited"
    /\ Len(accounts.list) = 1
    /\ \E e \in CookieFailures : log.events[e].op = "cookies"
    /\ exit_code = 1
    /\ Len(log.pushed) = 1
    /\ log.pushed[1].summary.tier = "none"

\* the calls made for an account
AccountEvents == { e \in 1..Len(log.events) : log.events[e].acct > 0 }

\* C20: in a run that processes accounts the hash file is read exactly once,
\* before the first account starts, and written at most once, after the
\* last account has reached a terminal state, before any notification call
\* and before the exit; it is neither read nor written while the accounts
\* are processed.
C20_HashFileOnceEach ==
    LET writes == EventsOf({"write_hash"})
    IN  /\ Cardinality(writes) <= 1
        /\ pc \in {"load_accounts", "load_hash"} =>
              /\ log.events = << >>
              /\ \A k \in 1..Len(acctState) : acctState[k] = "PENDING"
        /\ (Loaded /\ pc # "load_hash") =>
              /\ EventsOf({"read_hash"}) = {1}
              /\ 1 \notin AccountEvents
        /\ pc \in {"load_accounts", "load_hash", "loop"} =>
              /\ writes = {}
              /\ hashFile \in PriorFiles
        /\ \A w \in writes :
              /\ \A k \in 1..Len(acctState) : acctState[k] \in Terminal
              /\ \A e \in (w + 1)..Len(log.events) : log.events[e].op = "push"
              /\ \A e \in 1..(w - 1) : log.events[e].op # "push"
        /\ exit_code # -1 => pc = "exited"

C20_Witness ==
    /\ pc = "exited"
    /\ Len(accounts.list) = 2
    /\ log.events[1].op = "read_hash"
    /\ log.events[1].ok
    /\ \E w \in EventsOf({"write_hash"}) :
          /\ log.events[w].ok
          /\ log.events[w - 1].acct = 2
          /\ log.events[w + 1].op = "push"
    /\ hashFile \notin PriorFiles

\* C21 as stated: of two consecutive runs over the same account list with
\* no file I/O failure, when the first run read at least one balance and
\* the second run has every check-in succeed and reads the same quotas for
\* the same accounts, the second run sends no notification and leaves the
\* stored hash as the first run left it.
C21_AsStated ==
    (/\ first.done
     /\ pc = "exited"
     /\ first.io_ok
     /\ WritesOk
     /\ first.reads # {}
     /\ success_count = Len(accounts.list)
     /\ QuotasRead = first.reads) =>
        /\ log.pushed = << >>
        /\ EventsOf({"push"}) = {}
        /\ hashFile = first.file

====
